---- MODULE Spec2Model ----
(***************************************************************************)
(* State-machine model of train_dcn (src/training/compression.py), the     *)
(* training control loop of a deep compression network: epoch and batch    *)
(* scheduling, the per-batch metric caches, the Performance Log, the       *)
(* validation/report cadence and the early-stopping decision.              *)
(*                                                                         *)
(* Real numbers are exact rationals [n |-> numerator, d |-> denominator];  *)
(* a denominator of 0 stands for NaN (numpy's mean of nothing, 0/0).       *)
(* Per-batch metric values are integers in fixed-point units; SSIM is in   *)
(* units of 1e-5 (80000 is 0.80, 80001 is 0.80001).  Floating-point        *)
(* rounding is not modelled.                                               *)
(***************************************************************************)
EXTENDS Integers, Sequences, FiniteSets, TLC

VARIABLES
    training,       \* the training configuration dict (current_epoch is mutated)
    data,           \* sample counts of the data provider
    oracle,         \* values the model/data collaborators can return on this run
    overwrite,      \* the overwrite argument of the current call
    pc,             \* position of the call inside train_dcn
    epoch,          \* loop variable of the epoch loop
    batch_id,       \* loop variable of the current batch loop
    learning_rate,  \* local learning_rate
    current_patch,  \* patch size sampled for the current batch
    resized,        \* whether the resize Bernoulli draw of the current batch succeeded
    values,         \* result of the latest dcn.training_step
    current,        \* local current of the latest convergence check
    previous,       \* local previous of the latest convergence check
    caches,         \* Metric Cache: caches[metric][split], bounded deques
    perf,           \* Performance Log: dcn.performance[metric][split]
    perf0,          \* the Performance Log as it was when the current call started
    dirExists,      \* os.path.isdir(model_output_dirname)
    progress,       \* content of progress.json
    thumbnails,     \* epochs for which thumbnails-{epoch}.png exists
    checkpoints,    \* epochs for which dcn.save_model was executed
    writes,         \* number of file writes performed so far (all calls)
    invoked,        \* collaborator operations invoked by the current call
    steps,          \* number of training steps executed by the current call
    outcome,        \* how the current call ended
    ncalls,         \* number of calls of train_dcn started so far
    returned,       \* value the current call returned ("pending" while it runs)
    pass_values,    \* results recorded so far in the current pass over the batches
    prev_outcome    \* how the call before the current one ended

vars == <<training, data, oracle, overwrite, pc, epoch, batch_id, learning_rate,
          current_patch, resized, values, current, previous, caches, perf, perf0,
          dirExists, progress, thumbnails, checkpoints, writes, invoked, steps,
          outcome, ncalls, returned, pass_values, prev_outcome>>

----------------------------------------------------------------------------
(* Bounds of the model *)

MaxEpochs == 3
MaxBatches == 2
MaxVBatches == 2
MaxSchedule == 2
MaxPatch == 3
MaxCalls == 2
BatchSize == 2

(* Program constants *)

n_tail == 5
NaN == -1
NoEpoch == -1

Metrics == {"loss", "ssim", "entropy"}
Splits == {"training", "validation"}

----------------------------------------------------------------------------
(* Arithmetic helpers *)

RECURSIVE GCD(_, _)
GCD(a, b) == IF b = 0 THEN a ELSE GCD(b, a % b)

LCM(a, b) == (a * b) \div GCD(a, b)

Abs(x) == IF x < 0 THEN -x ELSE x

RECURSIVE SeqSum(_)
SeqSum(s) == IF s = <<>> THEN 0 ELSE Head(s) + SeqSum(Tail(s))

Rat(x) == [n |-> x, d |-> 1]

\* a local that holds no number yet
Unset == [n |-> 0, d |-> 0]

\* a + b over the least common denominator; NaN propagates
RatAdd(a, b) ==
    IF a.d = 0 \/ b.d = 0 THEN [n |-> 0, d |-> 0]
    ELSE LET m == LCM(a.d, b.d)
         IN [n |-> a.n * (m \div a.d) + b.n * (m \div b.d), d |-> m]

RECURSIVE RatSum(_)
RatSum(s) ==
    IF s = <<>> THEN Rat(0)
    ELSE CHOOSE r \in {RatAdd(Head(s), t) : t \in {RatSum(Tail(s))}} : TRUE

RatEq(a, b) == a.d # 0 /\ b.d # 0 /\ a.n * b.d = b.n * a.d

\* np.mean of a deque of per-batch scalars (0/0 = NaN when it is empty)
Mean(q) == [n |-> SeqSum(q), d |-> Len(q)]

\* np.mean of a slice of the Performance Log
MeanRat(s) ==
    LET t == RatSum(s)
    IN IF s = <<>> \/ t.d = 0 THEN [n |-> 0, d |-> 0]
       ELSE [n |-> t.n, d |-> t.d * Len(s)]

\* Python slice s[-k:]
LastN(s, k) == IF Len(s) <= k THEN s ELSE SubSeq(s, Len(s) - k + 1, Len(s))

\* Python slice s[-k:-1]
LastNButOne(s, k) ==
    IF Len(s) = 0 THEN <<>>
    ELSE IF Len(s) <= k THEN SubSeq(s, 1, Len(s) - 1)
    ELSE SubSeq(s, Len(s) - k + 1, Len(s) - 1)

----------------------------------------------------------------------------
(* Pieces of train_dcn *)

n_batches == data.training \div training.batch_size
v_batches == data.validation \div training.batch_size

\* variant of Capacity with one slot more than the split has batches
CapacityOneMore(split) == (IF split = "training" THEN n_batches ELSE v_batches) + 1

Capacity(split) == IF split = "training" THEN n_batches ELSE v_batches

\* variant of DequeAppend without the bound, list.append
ListAppend(q, v, maxlen) == Append(q, v)

\* collections.deque(maxlen=...).append
DequeAppend(q, v, maxlen) ==
    IF maxlen = 0 THEN <<>>
    ELSE IF Len(q) < maxlen THEN Append(q, v)
    ELSE Append(Tail(q), v)

EmptyCaches == [m \in Metrics |-> [s \in Splits |-> <<>>]]

\* for key, value in values.items(): caches[key][split].append(value)
Record(c, split, vals) ==
    [m \in Metrics |->
        [s \in Splits |->
            IF s = split THEN DequeAppend(c[m][s], vals[m], Capacity(split))
            ELSE c[m][s]]]

\* variant of AppendAverages that records the loss average only
AppendAveragesLossOnly(p, c, split) ==
    [m \in Metrics |->
        [s \in Splits |->
            IF s = split /\ m = "loss" THEN Append(p[m][s], Mean(c[m][s])) ELSE p[m][s]]]

\* for key in [...]: perf[key][split].append(float(np.mean(caches[key][split])))
AppendAverages(p, c, split) ==
    [m \in Metrics |->
        [s \in Splits |->
            IF s = split THEN Append(p[m][s], Mean(c[m][s])) ELSE p[m][s]]]

\* variant of SkipRun that lost the negation of the flag
SkipRunWrongFlag == dirExists /\ overwrite

\* variant of SkipRun that runs again when the call before was aborted
SkipRunUnlessAborted == dirExists /\ ~overwrite /\ outcome # "nan"

\* os.path.isdir(model_output_dirname) and not overwrite
SkipRun == dirExists /\ ~overwrite

\* variant of ReduceDue without the epoch > 0 test
ReduceDueFromZero(e) == e % training.learning_rate_reduction_schedule = 0

\* epoch > 0 and epoch % learning_rate_reduction_schedule == 0
ReduceDue(e) == e > 0 /\ e % training.learning_rate_reduction_schedule = 0

\* learning_rate *= learning_rate_reduction_factor
Reduced(lr) ==
    [n |-> lr.n * training.learning_rate_reduction_factor.n,
     d |-> lr.d * training.learning_rate_reduction_factor.d]

\* variant of ValidationDue that is late by one epoch
ValidationDueLate(e) == (e + 1) % training.validation_schedule = 0

\* epoch % validation_schedule == 0
ValidationDue(e) == e % training.validation_schedule = 0

\* variant of ResizeChoices with the end included
ResizeChoicesInclusive(P) == P .. (2 * P)

\* np.arange(patch_size, 2 * patch_size)
ResizeChoices(P) == P .. (2 * P - 1)

\* np.random.uniform(), in percent
UniformDraws == {0, 50, 99}

\* np.isnan(values['loss'])
IsNaN(v) == v = NaN

\* current = np.mean(perf['ssim']['validation'][-n_tail:])
Current(series) == MeanRat(LastN(series, n_tail))

\* variant of Previous over the window before the last n_tail values,
\* perf['ssim']['validation'][-2 * n_tail:-n_tail]
PreviousDisjoint(series) ==
    MeanRat(IF Len(series) <= n_tail THEN <<>>
            ELSE SubSeq(series,
                        IF Len(series) <= 2 * n_tail THEN 1 ELSE Len(series) - 2 * n_tail + 1,
                        Len(series) - n_tail))

\* previous = np.mean(perf['ssim']['validation'][-(n_tail + 1):-1])
Previous(series) == MeanRat(LastNButOne(series, n_tail + 1))

\* variant of PerfChangeBelow with the comparison turned around
PerfChangeAbove(c, p, thr) ==
    /\ c.d # 0 /\ p.d # 0
    /\ LET m  == LCM(c.d, p.d)
           cn == c.n * (m \div c.d)
           pn == p.n * (m \div p.d)
       IN pn # 0 /\ Abs(cn - pn) * thr.d > thr.n * Abs(pn)

\* abs((current - previous) / previous) < convergence_threshold
\* (a comparison with NaN or with x/0 is false)
PerfChangeBelow(c, p, thr) ==
    /\ c.d # 0 /\ p.d # 0
    /\ LET m  == LCM(c.d, p.d)
           cn == c.n * (m \div c.d)
           pn == p.n * (m \div p.d)
       IN pn # 0 /\ Abs(cn - pn) * thr.d < thr.n * Abs(pn)

\* variant of Deteriorated with the operands exchanged, previous < 0.9 * current
DeterioratedSwapped(c, p) ==
    /\ c.d # 0 /\ p.d # 0
    /\ LET m  == LCM(c.d, p.d)
           cn == c.n * (m \div c.d)
           pn == p.n * (m \div p.d)
       IN 10 * pn < 9 * cn

\* current < 0.9 * previous
Deteriorated(c, p) ==
    /\ c.d # 0 /\ p.d # 0
    /\ LET m  == LCM(c.d, p.d)
           cn == c.n * (m \div c.d)
           pn == p.n * (m \div p.d)
       IN 10 * cn < 9 * pn

\* variant of StopReason that tests the deterioration before the convergence
StopReasonDeteriorationFirst(series, thr) ==
    IF Len(series) > 5
    THEN CHOOSE r \in
             { IF Deteriorated(c, p) THEN "deteriorated"
               ELSE IF PerfChangeBelow(c, p, thr) THEN "converged"
               ELSE "none" : c \in {Current(series)}, p \in {Previous(series)} } : TRUE
    ELSE "none"

\* variant of StopReason that already checks a series of n_tail values
StopReasonEarly(series, thr) ==
    IF Len(series) >= n_tail
    THEN CHOOSE r \in
             { IF PerfChangeBelow(c, p, thr) THEN "converged"
               ELSE IF Deteriorated(c, p) THEN "deteriorated"
               ELSE "none" : c \in {Current(series)}, p \in {Previous(series)} } : TRUE
    ELSE "none"

\* the check of lines 306-318: the reason of the break, or "none"; current (c)
\* and previous (p) are computed once
StopReason(series, thr) ==
    IF Len(series) > 5
    THEN CHOOSE r \in
             { IF PerfChangeBelow(c, p, thr) THEN "converged"
               ELSE IF Deteriorated(c, p) THEN "deteriorated"
               ELSE "none" : c \in {Current(series)}, p \in {Previous(series)} } : TRUE
    ELSE "none"

----------------------------------------------------------------------------
(* Inputs of a run: configuration, data sizes, collaborator results,       *)
(* pre-existing Performance Log                                            *)

EmptyLog == [m \in Metrics |-> [s \in Splits |-> <<>>]]

Const(k, x) == [i \in 1 .. k |-> x]

\* a log left by earlier training: one entry per epoch in every series, the
\* validation-SSIM series being ssims (in units of 1e-5)
PrefilledLog(ssims) ==
    [m \in Metrics |->
        [s \in Splits |->
            IF m = "ssim" /\ s = "validation"
            THEN [i \in 1 .. Len(ssims) |-> Rat(ssims[i])]
            ELSE Const(Len(ssims), Rat(1))]]

\* results of dcn.training_step
StepA == [loss |-> 4, ssim |-> 60000, entropy |-> 2]
StepB == [loss |-> 2, ssim |-> 70000, entropy |-> 3]
StepNaN == [loss |-> NaN, ssim |-> 50000, entropy |-> 1]

\* loss, SSIM and entropy of one validation batch
ValResult(x) == [loss |-> (100000 - x) \div 10000, ssim |-> x, entropy |-> 2]

Half == [n |-> 1, d |-> 2]
One == [n |-> 1, d |-> 1]
Milli == [n |-> 1, d |-> 1000]
Fifth == [n |-> 200, d |-> 1000]

BaseTraining ==
    [batch_size |-> BatchSize, n_epochs |-> 1, patch_size |-> 2,
     learning_rate |-> One, learning_rate_reduction_factor |-> Half,
     learning_rate_reduction_schedule |-> 1, resize |-> 0,
     validation_schedule |-> 1, convergence_threshold |-> Milli,
     current_epoch |-> NoEpoch]

\* sample counts giving k full batches and a remainder of one sample
Samples(k) == BatchSize * k + 1

\* epoch, validation and learning-rate scheduling from an empty log
FamSchedule ==
    { [training |-> [BaseTraining EXCEPT !.n_epochs = e,
                        !.validation_schedule = vs,
                        !.learning_rate_reduction_schedule = ls,
                        !.learning_rate_reduction_factor = f],
       data |-> [training |-> Samples(1), validation |-> Samples(1)],
       oracle |-> [step |-> {StepA, StepB, StepNaN},
                   val |-> {ValResult(70000), ValResult(80000)}],
       perf |-> EmptyLog] :
        e \in 1 .. MaxEpochs, vs \in 1 .. MaxSchedule, ls \in 1 .. MaxSchedule,
        f \in {Half, One} }

\* several batches per epoch: the metric caches wrap around in the second epoch
FamCache ==
    { [training |-> [BaseTraining EXCEPT !.n_epochs = 2, !.validation_schedule = vs],
       data |-> [training |-> Samples(nb), validation |-> Samples(vb)],
       oracle |-> [step |-> {StepA, StepB, StepNaN},
                   val |-> {ValResult(70000), ValResult(80000)}],
       perf |-> EmptyLog] :
        nb \in 1 .. MaxBatches, vb \in 1 .. MaxVBatches, vs \in 1 .. 2 }

\* validation-SSIM histories that bring the next validation round to a check
CheckLogs ==
    { Const(5, 80000),
      Const(5, 80001) \o Const(4, 80000),
      Const(5, 80000) \o Const(4, 70000) }

\* convergence/deterioration check on a pre-existing log
FamCheck ==
    { [training |-> [BaseTraining EXCEPT !.n_epochs = e, !.convergence_threshold = thr],
       data |-> [training |-> Samples(1), validation |-> Samples(vb)],
       oracle |-> [step |-> {StepA, StepNaN},
                   val |-> {ValResult(30000), ValResult(70000), ValResult(80000)}],
       perf |-> PrefilledLog(h)] :
        e \in 1 .. 2, vb \in 1 .. MaxVBatches, thr \in {Milli, Fifth}, h \in CheckLogs }

\* augmentation sampling
FamAugment ==
    { [training |-> [BaseTraining EXCEPT !.patch_size = P, !.resize = r],
       data |-> [training |-> Samples(nb), validation |-> Samples(1)],
       oracle |-> [step |-> {StepA, StepNaN}, val |-> {ValResult(80000)}],
       perf |-> EmptyLog] :
        P \in 1 .. MaxPatch, r \in {0, 50, 100}, nb \in 1 .. MaxBatches }

\* runs from an empty log that are long enough to reach the check
FamLong ==
    { [training |-> [BaseTraining EXCEPT !.n_epochs = n_tail + 2,
                        !.validation_schedule = vs, !.convergence_threshold = thr],
       data |-> [training |-> Samples(1), validation |-> Samples(1)],
       oracle |-> [step |-> {StepA, StepNaN},
                   val |-> {ValResult(30000), ValResult(80000)}],
       perf |-> EmptyLog] :
        vs \in 1 .. MaxSchedule, thr \in {Milli, Fifth} }

Runs == FamSchedule \cup FamCache \cup FamCheck \cup FamAugment \cup FamLong

NoProgress(t) == [written |-> FALSE, training_spec |-> t, performance |-> EmptyLog]

InitWith(runs) ==
    /\ \E r \in runs :
        /\ training = r.training
        /\ data = r.data
        /\ oracle = r.oracle
        /\ perf = r.perf
        /\ perf0 = r.perf
        /\ progress = NoProgress(r.training)
    /\ overwrite \in BOOLEAN
    /\ dirExists \in BOOLEAN
    /\ pc = "idle"
    /\ epoch = 0
    /\ batch_id = 0
    /\ learning_rate = One
    /\ current_patch = 0
    /\ resized = FALSE
    /\ values = StepA
    /\ current = Unset
    /\ previous = Unset
    /\ caches = EmptyCaches
    /\ thumbnails = {}
    /\ checkpoints = {}
    /\ writes = 0
    /\ invoked = {}
    /\ steps = 0
    /\ outcome = "none"
    /\ ncalls = 0
    /\ returned = "pending"
    /\ pass_values = <<>>
    /\ prev_outcome = "none"

Init == InitWith(Runs)

----------------------------------------------------------------------------
(* train_dcn, one action per step of the function *)

\* lines 138-164: set-up, the skip decision, the summary writer
Start ==
    /\ pc = "idle"
    /\ ncalls' = ncalls + 1
    /\ perf0' = perf
    /\ caches' = EmptyCaches
    /\ learning_rate' = training.learning_rate
    /\ steps' = 0
    /\ epoch' = 0
    /\ batch_id' = 0
    /\ IF SkipRun
       THEN /\ invoked' = {"init"}
            /\ pc' = "done"
            /\ outcome' = "skip"
            /\ UNCHANGED <<dirExists, writes>>
       ELSE /\ invoked' = {"init", "get_summary_writer"}
            /\ pc' = "epoch"
            /\ outcome' = "none"
            /\ dirExists' = TRUE
            /\ writes' = writes + 1
    /\ UNCHANGED <<training, data, oracle, overwrite, current_patch, resized, perf,
                   progress, thumbnails, checkpoints>>
    /\ UNCHANGED <<values, current, previous>>
    /\ returned' = IF SkipRun THEN "None" ELSE "pending"
    /\ pass_values' = <<>>
    /\ UNCHANGED prev_outcome

\* lines 168-173: next iteration of the epoch loop
BeginEpoch ==
    /\ pc = "epoch"
    /\ epoch < training.n_epochs
    /\ training' = [training EXCEPT !.current_epoch = epoch]
    /\ learning_rate' = IF ReduceDue(epoch) THEN Reduced(learning_rate) ELSE learning_rate
    /\ batch_id' = 0
    /\ pc' = IF n_batches > 0 THEN "train" ELSE "train_avg"
    /\ UNCHANGED <<data, oracle, overwrite, epoch, current_patch, resized, caches, perf,
                   perf0, dirExists, progress, thumbnails, checkpoints, writes, invoked,
                   steps, outcome, ncalls>>
    /\ UNCHANGED <<values, current, previous>>
    /\ pass_values' = <<>>
    /\ UNCHANGED <<returned, prev_outcome>>

\* variant of LoopExhausted for a loop over range(0, n_epochs - 1)
LoopExhaustedEarly ==
    /\ pc = "epoch"
    /\ epoch >= training.n_epochs - 1
    /\ pc' = "done"
    /\ outcome' = "completed"
    /\ UNCHANGED <<training, data, oracle, overwrite, epoch, batch_id, learning_rate,
                   current_patch, resized, caches, perf, perf0, dirExists, progress,
                   thumbnails, checkpoints, writes, invoked, steps, ncalls>>
    /\ UNCHANGED <<values, current, previous>>
    /\ returned' = "None"
    /\ UNCHANGED <<pass_values, prev_outcome>>

\* line 168: range(0, n_epochs) is exhausted, the function returns
LoopExhausted ==
    /\ pc = "epoch"
    /\ epoch >= training.n_epochs
    /\ pc' = "done"
    /\ outcome' = "completed"
    /\ UNCHANGED <<training, data, oracle, overwrite, epoch, batch_id, learning_rate,
                   current_patch, resized, caches, perf, perf0, dirExists, progress,
                   thumbnails, checkpoints, writes, invoked, steps, ncalls>>
    /\ UNCHANGED <<values, current, previous>>
    /\ returned' = "None"
    /\ UNCHANGED <<pass_values, prev_outcome>>

\* variant of TrainStep that records the step's values before the NaN hook
TrainStepRecordFirst ==
    /\ pc = "train"
    /\ \E u \in UniformDraws, c \in ResizeChoices(training.patch_size), v \in oracle.step :
        /\ values' = v
        /\ resized' = (u < training.resize)
        /\ current_patch' = IF u < training.resize THEN c ELSE training.patch_size
        /\ steps' = steps + 1
        /\ caches' = Record(caches, "training", v)
        /\ IF IsNaN(v.loss)
           THEN /\ invoked' = invoked \cup {"next_training_batch", "training_step",
                                            "get_codebook"}
                /\ pc' = "done"
                /\ outcome' = "nan"
                /\ UNCHANGED batch_id
           ELSE /\ invoked' = invoked \cup {"next_training_batch", "training_step"}
                /\ batch_id' = batch_id + 1
                /\ pc' = IF batch_id + 1 < n_batches THEN "train" ELSE "train_avg"
                /\ UNCHANGED outcome
    /\ UNCHANGED <<training, data, oracle, overwrite, epoch, learning_rate, perf, perf0,
                   dirExists, progress, thumbnails, checkpoints, writes, ncalls>>
    /\ UNCHANGED <<current, previous>>
    /\ returned' = IF outcome' = "nan" THEN "None" ELSE returned
    /\ pass_values' = IF outcome' = "nan" THEN pass_values ELSE Append(pass_values, values')
    /\ UNCHANGED prev_outcome

\* lines 176-226: one training batch: patch sampling, training step, NaN hook,
\* recording of the step's values.  The flips, the gamma transform and the
\* dropout draw (196-201) only change the batch and keep_prob handed to the
\* model, whose effect is the choice of the step's result in oracle.step.
TrainStep ==
    /\ pc = "train"
    /\ \E u \in UniformDraws, c \in ResizeChoices(training.patch_size), v \in oracle.step :
        /\ values' = v
        /\ resized' = (u < training.resize)
        /\ current_patch' = IF u < training.resize THEN c ELSE training.patch_size
        /\ steps' = steps + 1
        /\ IF IsNaN(v.loss)
           THEN /\ invoked' = invoked \cup {"next_training_batch", "training_step",
                                            "get_codebook"}
                /\ pc' = "done"
                /\ outcome' = "nan"
                /\ UNCHANGED <<caches, batch_id>>
           ELSE /\ invoked' = invoked \cup {"next_training_batch", "training_step"}
                /\ caches' = Record(caches, "training", v)
                /\ batch_id' = batch_id + 1
                /\ pc' = IF batch_id + 1 < n_batches THEN "train" ELSE "train_avg"
                /\ UNCHANGED outcome
    /\ UNCHANGED <<training, data, oracle, overwrite, epoch, learning_rate, perf, perf0,
                   dirExists, progress, thumbnails, checkpoints, writes, ncalls>>
    /\ UNCHANGED <<current, previous>>
    /\ returned' = IF outcome' = "nan" THEN "None" ELSE returned
    /\ pass_values' = IF outcome' = "nan" THEN pass_values ELSE Append(pass_values, values')
    /\ UNCHANGED prev_outcome

\* lines 228-242: epoch averages of the training caches go to the log
\* variant of RecordTraining that goes to the report before the validation pass
RecordTrainingThenReport ==
    /\ pc = "train_avg"
    /\ perf' = AppendAverages(perf, caches, "training")
    /\ invoked' = invoked \cup {"get_codebook"}
    /\ batch_id' = 0
    /\ pc' = IF ValidationDue(epoch) THEN "snapshot" ELSE "progress_bar"
    /\ UNCHANGED <<training, data, oracle, overwrite, epoch, learning_rate, current_patch,
                   resized, caches, perf0, dirExists, progress, thumbnails, checkpoints,
                   writes, steps, outcome, ncalls>>
    /\ UNCHANGED <<values, current, previous>>
    /\ pass_values' = <<>>
    /\ UNCHANGED <<returned, prev_outcome>>

RecordTraining ==
    /\ pc = "train_avg"
    /\ perf' = AppendAverages(perf, caches, "training")
    /\ invoked' = invoked \cup {"get_codebook"}
    /\ batch_id' = 0
    /\ pc' = IF ValidationDue(epoch)
             THEN (IF v_batches > 0 THEN "validate" ELSE "val_avg")
             ELSE "progress_bar"
    /\ UNCHANGED <<training, data, oracle, overwrite, epoch, learning_rate, current_patch,
                   resized, caches, perf0, dirExists, progress, thumbnails, checkpoints,
                   writes, steps, outcome, ncalls>>
    /\ UNCHANGED <<values, current, previous>>
    /\ pass_values' = <<>>
    /\ UNCHANGED <<returned, prev_outcome>>

\* lines 244-259: one validation batch
ValidationStep ==
    /\ pc = "validate"
    /\ \E v \in oracle.val :
        /\ caches' = Record(caches, "validation", v)
        /\ pass_values' = Append(pass_values, v)
    /\ invoked' = invoked \cup {"next_validation_batch", "compress", "decompress"}
    /\ batch_id' = batch_id + 1
    /\ pc' = IF batch_id + 1 < v_batches THEN "validate" ELSE "val_avg"
    /\ UNCHANGED <<training, data, oracle, overwrite, epoch, learning_rate, current_patch,
                   resized, perf, perf0, dirExists, progress, thumbnails, checkpoints,
                   writes, steps, outcome, ncalls>>
    /\ UNCHANGED <<values, current, previous>>
    /\ UNCHANGED <<returned, prev_outcome>>

\* variant of RecordValidation that goes to the check before the report is written
RecordValidationThenCheck ==
    /\ pc = "val_avg"
    /\ perf' = AppendAverages(perf, caches, "validation")
    /\ pc' = "check"
    /\ UNCHANGED <<training, data, oracle, overwrite, epoch, batch_id, learning_rate,
                   current_patch, resized, caches, perf0, dirExists, progress, thumbnails,
                   checkpoints, writes, invoked, steps, outcome, ncalls>>
    /\ UNCHANGED <<values, current, previous>>
    /\ UNCHANGED <<returned, pass_values, prev_outcome>>

\* lines 261-262: averages of the validation caches go to the log
RecordValidation ==
    /\ pc = "val_avg"
    /\ perf' = AppendAverages(perf, caches, "validation")
    /\ pc' = "snapshot"
    /\ UNCHANGED <<training, data, oracle, overwrite, epoch, batch_id, learning_rate,
                   current_patch, resized, caches, perf0, dirExists, progress, thumbnails,
                   checkpoints, writes, invoked, steps, outcome, ncalls>>
    /\ UNCHANGED <<values, current, previous>>
    /\ UNCHANGED <<returned, pass_values, prev_outcome>>

\* lines 264-298: thumbnails file and the summaries
SaveSnapshot ==
    /\ pc = "snapshot"
    /\ thumbnails' = thumbnails \cup {epoch}
    /\ writes' = writes + 2
    /\ invoked' = invoked \cup {"compress", "next_validation_batch", "get_codebook"}
    /\ pc' = "save_progress"
    /\ UNCHANGED <<training, data, oracle, overwrite, epoch, batch_id, learning_rate,
                   current_patch, resized, caches, perf, perf0, dirExists, progress,
                   checkpoints, steps, outcome, ncalls>>
    /\ UNCHANGED <<values, current, previous>>
    /\ UNCHANGED <<returned, pass_values, prev_outcome>>

\* lines 300-301 and save_progress (103-118): progress.json is overwritten
SaveProgress ==
    /\ pc = "save_progress"
    /\ progress' = [written |-> TRUE, training_spec |-> training, performance |-> perf]
    /\ writes' = writes + 1
    /\ invoked' = invoked \cup {"summary", "get_parameters", "get_codebook"}
    /\ pc' = "save_model"
    /\ UNCHANGED <<training, data, oracle, overwrite, epoch, batch_id, learning_rate,
                   current_patch, resized, caches, perf, perf0, dirExists, thumbnails,
                   checkpoints, steps, outcome, ncalls>>
    /\ UNCHANGED <<values, current, previous>>
    /\ UNCHANGED <<returned, pass_values, prev_outcome>>

\* lines 303-304: model checkpoint
SaveModel ==
    /\ pc = "save_model"
    /\ checkpoints' = checkpoints \cup {epoch}
    /\ writes' = writes + 1
    /\ invoked' = invoked \cup {"save_model"}
    /\ pc' = "check"
    /\ UNCHANGED <<training, data, oracle, overwrite, epoch, batch_id, learning_rate,
                   current_patch, resized, caches, perf, perf0, dirExists, progress,
                   thumbnails, steps, outcome, ncalls>>
    /\ UNCHANGED <<values, current, previous>>
    /\ UNCHANGED <<returned, pass_values, prev_outcome>>

\* lines 306-318: convergence / deterioration check
\* variant of ConvergenceCheck that raises the reason and goes on with the loop
ConvergenceCheckNoBreak ==
    /\ pc = "check"
    /\ LET series == perf["ssim"]["validation"]
           reason == StopReason(series, training.convergence_threshold)
       IN /\ IF Len(series) > 5
             THEN current' = Current(series) /\ previous' = Previous(series)
             ELSE UNCHANGED <<current, previous>>
          /\ pc' = "progress_bar"
          /\ IF reason = "none" THEN UNCHANGED outcome ELSE outcome' = reason
    /\ UNCHANGED <<training, data, oracle, overwrite, epoch, batch_id, learning_rate,
                   current_patch, resized, caches, perf, perf0, dirExists, progress,
                   thumbnails, checkpoints, writes, invoked, steps, ncalls>>
    /\ UNCHANGED values
    /\ UNCHANGED <<returned, pass_values, prev_outcome>>

ConvergenceCheck ==
    /\ pc = "check"
    /\ LET series == perf["ssim"]["validation"]
           reason == StopReason(series, training.convergence_threshold)
       IN /\ IF Len(series) > 5
             THEN current' = Current(series) /\ previous' = Previous(series)
             ELSE UNCHANGED <<current, previous>>
          /\ IF reason = "none"
             THEN pc' = "progress_bar" /\ UNCHANGED <<outcome, returned>>
             ELSE pc' = "done" /\ outcome' = reason /\ returned' = "None"
    /\ UNCHANGED <<training, data, oracle, overwrite, epoch, batch_id, learning_rate,
                   current_patch, resized, caches, perf, perf0, dirExists, progress,
                   thumbnails, checkpoints, writes, invoked, steps, ncalls>>
    /\ UNCHANGED values
    /\ UNCHANGED <<pass_values, prev_outcome>>

\* lines 320-345: progress bar, then the loop advances
UpdateProgressBar ==
    /\ pc = "progress_bar"
    /\ epoch' = epoch + 1
    /\ pc' = "epoch"
    /\ UNCHANGED <<training, data, oracle, overwrite, batch_id, learning_rate,
                   current_patch, resized, caches, perf, perf0, dirExists, progress,
                   thumbnails, checkpoints, writes, invoked, steps, outcome, ncalls>>
    /\ UNCHANGED <<values, current, previous>>
    /\ UNCHANGED <<returned, pass_values, prev_outcome>>

\* the caller calls train_dcn again with the same dcn, training and data
CallAgain ==
    /\ pc = "done"
    /\ ncalls < MaxCalls
    /\ pc' = "idle"
    /\ overwrite' \in BOOLEAN
    /\ UNCHANGED <<training, data, oracle, epoch, batch_id, learning_rate, current_patch,
                   resized, caches, perf, perf0, dirExists, progress, thumbnails,
                   checkpoints, writes, invoked, steps, outcome, ncalls>>
    /\ UNCHANGED <<values, current, previous>>
    /\ prev_outcome' = outcome
    /\ UNCHANGED <<returned, pass_values>>

Next ==
    \/ Start
    \/ BeginEpoch
    \/ LoopExhausted
    \/ TrainStep
    \/ RecordTraining
    \/ ValidationStep
    \/ RecordValidation
    \/ SaveSnapshot
    \/ SaveProgress
    \/ SaveModel
    \/ ConvergenceCheck
    \/ UpdateProgressBar

Spec == Init /\ [][Next]_vars

\* train_dcn is sequential code: a step that can be taken is taken
SpecFair == Spec /\ WF_vars(Next)

\* repeated calls on a small configuration: the second call sees what the first left
FamRecall ==
    { [training |-> [BaseTraining EXCEPT !.n_epochs = e],
       data |-> [training |-> Samples(1), validation |-> Samples(1)],
       oracle |-> [step |-> {StepA, StepNaN},
                   val |-> {ValResult(30000), ValResult(80000)}],
       perf |-> p] :
        e \in 1 .. 2, p \in {EmptyLog, PrefilledLog(Const(5, 80000))} }

InitRecall == InitWith(FamRecall)

NextRecall == Next \/ CallAgain

SpecRecall == InitRecall /\ [][NextRecall]_vars

----------------------------------------------------------------------------
(* Properties *)

\* the training averages of the current epoch are in the log
TrainingRecorded ==
    \/ pc \in {"validate", "val_avg", "snapshot", "save_progress", "save_model",
               "check", "progress_bar"}
    \/ pc = "done" /\ outcome \in {"converged", "deteriorated"}

\* number of training epochs the current call has completed
CompletedEpochs == IF TrainingRecorded THEN epoch + 1 ELSE epoch

\* C1: at every point of a run, each training series (loss, ssim, entropy) has
\* grown by exactly the number of completed training epochs: from an empty log
\* its length is e+1 once epoch e is completed and e before that, whatever
\* n_epochs, validation_schedule and the way the run ends.
C1_TrainingSeriesLength ==
    \A m \in Metrics :
        Len(perf[m]["training"]) = Len(perf0[m]["training"]) + CompletedEpochs

\* C1 witness: a run from an empty log stopped early in epoch 5 with 6 entries
C1_Witness ==
    /\ perf0 = EmptyLog
    /\ outcome = "converged"
    /\ epoch = 5
    /\ \A m \in Metrics : Len(perf[m]["training"]) = 6

\* C2: a training step that returns loss = NaN ends the run in that very step:
\* the step's values are not recorded in the caches, nothing is appended to the
\* log (the training series keep the length they had when the epoch began), no
\* file is written, and afterwards nothing at all is executed.
C2_NaNAbortsRun ==
    [][ /\ (pc = "train" /\ steps' = steps + 1 /\ IsNaN(values'.loss)) =>
            /\ pc' = "done"
            /\ outcome' = "nan"
            /\ caches' = caches
            /\ perf' = perf
            /\ UNCHANGED <<progress, thumbnails, checkpoints, writes>>
            /\ \A m \in Metrics :
                Len(perf'[m]["training"]) = Len(perf0[m]["training"]) + epoch
        /\ outcome = "nan" => UNCHANGED vars
      ]_vars

\* C2 witness: a NaN abort in the second epoch, after a full first epoch
C2_Witness ==
    /\ outcome = "nan"
    /\ pc = "done"
    /\ epoch = 1
    /\ IsNaN(values.loss)
    /\ perf0 = EmptyLog
    /\ Len(perf["loss"]["training"]) = 1
    /\ checkpoints = {0}

\* the validation-SSIM series of the log and its length
ValSsim == perf["ssim"]["validation"]
NVal == Len(ValSsim)

\* the convergence check of the current epoch has been evaluated
CheckDone ==
    /\ NVal > 5
    /\ \/ pc = "progress_bar" /\ ValidationDue(epoch)
       \/ pc = "done" /\ outcome \in {"converged", "deteriorated"}

\* mean of the entries at positions lo..hi (1-based) of a series
WindowMean(s, lo, hi) == MeanRat(SubSeq(s, lo, hi))

\* r is the SSIM value x (in units of 1e-5)
IsSsim(r, x) == RatEq(r, Rat(x))

\* a perf_change of 0.125 (from 0.80 to 0.70) exceeds the threshold
DropExceedsThreshold ==
    125 * training.convergence_threshold.d > 1000 * training.convergence_threshold.n

\* C3 as stated: previous is the mean of the five values before the last five
C3_Original ==
    ( /\ CheckDone
      /\ NVal >= 2 * n_tail
      /\ IsSsim(WindowMean(ValSsim, NVal - 9, NVal - 5), 80000)
      /\ IsSsim(WindowMean(ValSsim, NVal - 4, NVal), 70000)
      /\ DropExceedsThreshold )
    => (pc = "done" /\ outcome = "deteriorated")

\* C3 (amended): at a check where the mean of the five validation-SSIM values
\* that end one before the last (positions n-5..n-1) is 0.80 and the mean of
\* the last five (positions n-4..n) is 0.70, the loop stops with reason
\* "deteriorated" whenever that perf_change (0.125) exceeds the threshold.
C3_Deterioration ==
    ( /\ CheckDone
      /\ IsSsim(WindowMean(ValSsim, NVal - 5, NVal - 1), 80000)
      /\ IsSsim(WindowMean(ValSsim, NVal - 4, NVal), 70000)
      /\ DropExceedsThreshold )
    => (pc = "done" /\ outcome = "deteriorated")

\* C3 witness: such a check, ended with "deteriorated"
C3_Witness ==
    /\ CheckDone
    /\ IsSsim(WindowMean(ValSsim, NVal - 5, NVal - 1), 80000)
    /\ IsSsim(WindowMean(ValSsim, NVal - 4, NVal), 70000)
    /\ DropExceedsThreshold
    /\ pc = "done"
    /\ outcome = "deteriorated"

\* the last five values are 0.80 and the five before them 0.80001
ConvergenceScenario ==
    /\ NVal >= 2 * n_tail
    /\ \A i \in (NVal - 4) .. NVal : IsSsim(ValSsim[i], 80000)
    /\ \A i \in (NVal - 9) .. (NVal - 5) : IsSsim(ValSsim[i], 80001)

\* C4: with convergence_threshold = 0.001, a check on a validation-SSIM series
\* whose last five values are 0.80 and whose five values before are 0.80001
\* stops the loop with reason "converged".
C4_Convergence ==
    (CheckDone /\ training.convergence_threshold = Milli /\ ConvergenceScenario)
    => (pc = "done" /\ outcome = "converged")

\* C4 witness: the scenario was checked and the run converged
C4_Witness ==
    /\ CheckDone
    /\ training.convergence_threshold = Milli
    /\ ConvergenceScenario
    /\ pc = "done"
    /\ outcome = "converged"

\* C5: a call with overwrite = False on an existing model directory ends at
\* once as a skip and writes nothing: the Performance Log, the training
\* configuration, progress.json, the thumbnails, the checkpoints, the directory
\* and the count of file writes are all as before, also when an earlier call
\* of the same run has written them.
C5_IdempotentSkip ==
    [][ (pc = "idle" /\ dirExists /\ ~overwrite /\ ncalls' = ncalls + 1) =>
            /\ pc' = "done"
            /\ outcome' = "skip"
            /\ UNCHANGED <<perf, training, progress, thumbnails, checkpoints, writes,
                           dirExists>>
      ]_vars

\* C5 witness: a second call skipped after a first call that wrote its files
C5_Witness ==
    /\ ncalls = 2
    /\ pc = "done"
    /\ outcome = "skip"
    /\ ~overwrite
    /\ progress.written
    /\ checkpoints # {}
    /\ writes > 0

\* number of validation rounds whose averages are in the log
ValidationRounds ==
    IF \/ pc \in {"snapshot", "save_progress", "save_model", "check", "progress_bar"}
       \/ pc = "done" /\ outcome \in {"converged", "deteriorated"}
    THEN epoch \div training.validation_schedule + 1
    ELSE (epoch + training.validation_schedule - 1) \div training.validation_schedule

\* C6: each validation series has grown by exactly one entry per epoch e with
\* e mod validation_schedule = 0: floor(e / validation_schedule) + 1 entries
\* once epoch e is completed, and only the rounds of the earlier epochs
\* (ceil(e / validation_schedule)) before the validation of epoch e.
C6_ValidationSeriesLength ==
    \A m \in Metrics :
        Len(perf[m]["validation"]) = Len(perf0[m]["validation"]) + ValidationRounds

\* C6 witness: from an empty log, epoch 2 of a schedule of 2 is completed and
\* the validation series hold two entries
C6_Witness ==
    /\ perf0 = EmptyLog
    /\ training.validation_schedule = 2
    /\ pc = "progress_bar"
    /\ epoch = 2
    /\ \A m \in Metrics : Len(perf[m]["validation"]) = 2

\* one step keeps every buffer within its capacity, records by dropping the
\* oldest entry of a full buffer, and logs the arithmetic mean of the buffer
CacheStep ==
    \A m \in Metrics, s \in Splits :
        LET old == caches[m][s]
            new == caches'[m][s]
        IN /\ Len(new) <= Capacity(s)
           /\ new # old =>
                /\ IF Len(old) = Capacity(s)
                   THEN Len(new) = Len(old) /\ SubSeq(new, 1, Len(new) - 1) = Tail(old)
                   ELSE Len(new) = Len(old) + 1 /\ SubSeq(new, 1, Len(old)) = old
                /\ s = "training" => new[Len(new)] = values'[m]
           /\ perf'[m][s] # perf[m][s] =>
                /\ Len(old) \in 1 .. Capacity(s)
                /\ Len(perf'[m][s]) = Len(perf[m][s]) + 1
                /\ LET avg == perf'[m][s][Len(perf'[m][s])]
                   IN avg.d # 0 /\ avg.n * Len(old) = SeqSum(old) * avg.d

\* C7: every Metric Cache buffer holds at most as many entries as its split has
\* batches per epoch; recording into a full buffer drops its oldest entry; the
\* average that goes to the log is the arithmetic mean of the buffer.
C7_CacheBounded == [][CacheStep]_vars

\* C7 witness: in the second epoch the first value of the first epoch (4) has
\* been dropped from the full training buffer, the second (2) is now the oldest
C7_Witness ==
    /\ n_batches = 2
    /\ pc = "train"
    /\ epoch = 1
    /\ batch_id = 1
    /\ RatEq(perf["loss"]["training"][1], Rat(3))
    /\ values["loss"] = 4
    /\ caches["loss"]["training"] = <<2, 4>>

\* number of scheduled boundaries among the epochs 1..e
Boundaries(e) ==
    Cardinality({k \in 1 .. e : k % training.learning_rate_reduction_schedule = 0})

RECURSIVE Pow(_, _)
Pow(b, k) == IF k = 0 THEN 1 ELSE b * Pow(b, k - 1)

\* initial_rate x factor^k
RateAfter(k) ==
    [n |-> training.learning_rate.n * Pow(training.learning_rate_reduction_factor.n, k),
     d |-> training.learning_rate.d * Pow(training.learning_rate_reduction_factor.d, k)]

\* the iteration of the current epoch has begun
EpochBegun ==
    /\ pc \notin {"idle", "epoch"}
    /\ ~(pc = "done" /\ outcome \in {"skip", "completed"})

\* a <= b for rationals with positive denominators
RatLeq(a, b) == a.n * b.d <= b.n * a.d

\* C8: the learning rate of epoch e is initial_rate x factor^(number of
\* scheduled boundaries among 1..e), through all batches of the epoch; it
\* changes only when an epoch begins and never increases (factor <= 1).
C8_LearningRate ==
    /\ [](pc # "idle" =>
            RatEq(learning_rate,
                  RateAfter(IF EpochBegun THEN Boundaries(epoch)
                            ELSE IF epoch = 0 THEN 0 ELSE Boundaries(epoch - 1))))
    /\ [][ pc # "idle" =>
            /\ RatLeq(learning_rate', learning_rate)
            /\ learning_rate' # learning_rate => (pc = "epoch" /\ pc' # "done")
         ]_vars

\* C8 witness: the third epoch of a schedule of 1 trains at a quarter of the rate
C8_Witness ==
    /\ pc = "train"
    /\ epoch = 2
    /\ training.learning_rate_reduction_schedule = 1
    /\ training.learning_rate_reduction_factor = Half
    /\ RatEq(learning_rate, [n |-> 1, d |-> 4])

\* C9 as stated: the resize branch yields a size strictly between P and 2P
C9_Original ==
    resized =>
        (current_patch > training.patch_size /\ current_patch < 2 * training.patch_size)

\* C9 (amended): whenever the resize branch is taken, the sampled patch size is
\* an integer s with P <= s < 2P; the base size P itself can be produced.
C9_ResizeRange ==
    resized =>
        (current_patch >= training.patch_size /\ current_patch < 2 * training.patch_size)

\* C9 witness: the resize branch was taken and produced the base size P = 2
C9_Witness ==
    /\ resized
    /\ steps > 0
    /\ training.patch_size = 2
    /\ current_patch = training.patch_size

\* C10 as stated: previous is the mean over the positions n-9..n-5
C10_Original ==
    (CheckDone /\ NVal >= 2 * n_tail) =>
        /\ RatEq(current, WindowMean(ValSsim, NVal - 4, NVal))
        /\ RatEq(previous, WindowMean(ValSsim, NVal - 9, NVal - 5))

\* C10 (amended): in the check, current is the mean of the last 5
\* validation-SSIM values (positions n-4..n) and previous the mean of the 5
\* values that end one before the last (positions n-5..n-1); the two windows
\* share 4 positions.
C10_Windows ==
    CheckDone =>
        /\ RatEq(current, WindowMean(ValSsim, NVal - 4, NVal))
        /\ RatEq(previous, WindowMean(ValSsim, NVal - 5, NVal - 1))

\* C10 witness: a check on 10 values where the mean over n-5..n-1 was used and
\* differs from the mean over n-9..n-5
C10_Witness ==
    /\ CheckDone
    /\ NVal = 2 * n_tail
    /\ RatEq(previous, WindowMean(ValSsim, NVal - 5, NVal - 1))
    /\ ~RatEq(previous, WindowMean(ValSsim, NVal - 9, NVal - 5))

----------------------------------------------------------------------------
(* Return value and the skip *)

\* a call that has returned
Returned == pc = "done"

\* C11 (as stated): the value returned after a NaN abort is the failure
\* sentinel None, and a call that ends completed, converged or as a skip
\* returns a value that differs from that sentinel.
C11_Original ==
    /\ (Returned /\ outcome = "nan") => returned = "None"
    /\ (Returned /\ outcome \in {"completed", "converged", "skip"}) => returned # "None"

\* C12 (as stated): a call that ends as a skip has invoked no operation of the
\* model collaborator and none of the data provider.
C12_Original ==
    (Returned /\ outcome = "skip") => invoked = {}

----------------------------------------------------------------------------
(* The stop decision *)

\* r over the denominator m, a multiple of r.d
Over(r, m) == r.n * (m \div r.d)

\* perf_change = |current - previous| / previous of the check just evaluated,
\* taken over the windows n-4..n and n-5..n-1, is below the threshold
ChangeBelowThreshold ==
    LET c   == WindowMean(ValSsim, NVal - 4, NVal)
        p   == WindowMean(ValSsim, NVal - 5, NVal - 1)
        m   == LCM(c.d, p.d)
        thr == training.convergence_threshold
    IN Abs(Over(c, m) - Over(p, m)) * thr.d < thr.n * Abs(Over(p, m))

\* current < 0.9 * previous at the check just evaluated
BelowNineTenths ==
    LET c == WindowMean(ValSsim, NVal - 4, NVal)
        p == WindowMean(ValSsim, NVal - 5, NVal - 1)
        m == LCM(c.d, p.d)
    IN 10 * Over(c, m) < 9 * Over(p, m)

\* C13: a check stops with "converged" when perf_change is below the
\* threshold; otherwise it stops with "deteriorated" when current is below 0.9
\* times previous; otherwise the loop continues. "converged" takes precedence,
\* so "deteriorated" is raised only when perf_change >= threshold, also for a
\* threshold above 0.1.
C13_StopDecision ==
    CheckDone =>
        /\ ChangeBelowThreshold => (pc = "done" /\ outcome = "converged")
        /\ (~ChangeBelowThreshold /\ BelowNineTenths) =>
               (pc = "done" /\ outcome = "deteriorated")
        /\ (~ChangeBelowThreshold /\ ~BelowNineTenths) =>
               (pc = "progress_bar" /\ outcome = "none")

\* C13 witness: threshold 0.2, current below 0.9 times previous and perf_change
\* below the threshold: the check ended with "converged"
C13_Witness ==
    /\ CheckDone
    /\ training.convergence_threshold = Fifth
    /\ ChangeBelowThreshold
    /\ BelowNineTenths
    /\ pc = "done"
    /\ outcome = "converged"

\* the run was stopped by the check
EarlyStop == pc = "done" /\ outcome \in {"converged", "deteriorated"}

\* C14: the check is evaluated only in validation epochs and only once the
\* validation-SSIM series holds at least 6 averages; a run that starts from an
\* empty log is therefore not stopped before its 6th validation round, that is
\* before epoch 5 * validation_schedule.
C14_CheckSchedule ==
    /\ pc = "check" => ValidationDue(epoch)
    /\ EarlyStop => (ValidationDue(epoch) /\ NVal >= n_tail + 1)
    /\ (perf0 = EmptyLog /\ NVal <= n_tail) => (current = Unset /\ previous = Unset)
    /\ (perf0 = EmptyLog /\ EarlyStop) =>
           (ValidationRounds >= n_tail + 1 /\ epoch >= n_tail * training.validation_schedule)

\* C14 witness: a run from an empty log stopped in its 6th validation round,
\* epoch 5 * validation_schedule
C14_Witness ==
    /\ perf0 = EmptyLog
    /\ EarlyStop
    /\ ValidationRounds = n_tail + 1
    /\ epoch = n_tail * training.validation_schedule

----------------------------------------------------------------------------
(* Order of the steps of an epoch *)

\* C15: every write of progress.json and every checkpoint save of epoch e
\* comes after the training averages of epoch e and the validation averages of
\* that round have been appended for all three metrics: at the write each
\* training series has grown by e + 1 entries and the three validation series
\* have one common length, that of the completed round; progress.json receives
\* exactly that log.
C15_WritesAfterAverages ==
    [][ (progress' # progress \/ checkpoints' # checkpoints) =>
            /\ \A m \in Metrics :
                /\ Len(perf[m]["training"]) = Len(perf0[m]["training"]) + epoch + 1
                /\ Len(perf[m]["validation"]) =
                       Len(perf0[m]["validation"])
                           + epoch \div training.validation_schedule + 1
                /\ Len(perf[m]["validation"]) = Len(perf["ssim"]["validation"])
            /\ training.current_epoch = epoch
            /\ progress' # progress =>
                   (progress'.performance = perf /\ progress'.training_spec = training)
            /\ checkpoints' # checkpoints => checkpoints' = checkpoints \cup {epoch}
      ]_vars

\* C15 witness: progress.json and the checkpoint of epoch 2 of a schedule of 2
\* are written, the log holding 3 training and 2 validation entries per metric
C15_Witness ==
    /\ perf0 = EmptyLog
    /\ training.validation_schedule = 2
    /\ epoch = 2
    /\ pc = "check"
    /\ 2 \in checkpoints
    /\ progress.written
    /\ \A m \in Metrics :
        /\ Len(progress.performance[m]["training"]) = 3
        /\ Len(progress.performance[m]["validation"]) = 2

\* number of batches of one pass over a split
Batches(s) == IF s = "training" THEN n_batches ELSE v_batches

\* the values of metric m recorded in the current pass, in their order
PassSeries(m) == [i \in 1 .. Len(pass_values) |-> pass_values[i][m]]

\* C16: each average appended to the log is the mean of exactly the per-batch
\* values recorded in the current epoch (training) or the current validation
\* round: at the averaging the buffer holds these values and nothing left from
\* an earlier epoch.
C16_AverageOfCurrentPass ==
    [][ \A m \in Metrics, s \in Splits :
            perf'[m][s] # perf[m][s] =>
                /\ Len(pass_values) = Batches(s)
                /\ caches[m][s] = PassSeries(m)
                /\ LET avg == perf'[m][s][Len(perf'[m][s])]
                   IN /\ avg.d # 0
                      /\ avg.n * Len(pass_values) = SeqSum(PassSeries(m)) * avg.d
      ]_vars

\* C16 witness: two batches per epoch, losses 4, 4 in epoch 0 and 2, 2 in
\* epoch 1: the second training average is 2, not a mix with the first epoch
C16_Witness ==
    /\ perf0 = EmptyLog
    /\ n_batches = 2
    /\ epoch = 1
    /\ Len(perf["loss"]["training"]) = 2
    /\ RatEq(perf["loss"]["training"][1], Rat(4))
    /\ RatEq(perf["loss"]["training"][2], Rat(2))

\* the check has raised "converged" or "deteriorated"
Raised == outcome \in {"converged", "deteriorated"}

\* C17: a check that raises "converged" or "deteriorated" in epoch e ends the
\* loop at once: the call returns in that step, current_epoch is e, and no
\* step of a later epoch (training step, validation batch, log append,
\* snapshot, checkpoint) follows.
C17_StopEndsLoop ==
    [][ /\ ~Raised
        /\ Raised' =>
              /\ pc = "check" /\ pc' = "done"
              /\ training.current_epoch = epoch
              /\ UNCHANGED <<epoch, training, steps, caches, perf, progress, thumbnails,
                             checkpoints, writes, invoked>>
      ]_vars

\* C17 witness: stopped in an epoch that is not the last one, current_epoch
\* still that epoch
C17_Witness ==
    /\ Raised
    /\ pc = "done"
    /\ epoch + 1 < training.n_epochs
    /\ training.current_epoch = epoch

----------------------------------------------------------------------------
(* Termination *)

Terminal == {"skip", "completed", "converged", "deteriorated", "nan"}

\* C18: every call terminates in exactly one terminal state (completed by
\* exhaustion or by the skip, converged, deteriorated, aborted on NaN), after
\* at most n_epochs epochs; current_epoch starts at 0 and grows by exactly 1
\* per iteration; the call ends as completed by exhaustion only after epoch
\* n_epochs - 1 has finished without a stop.
C18_Termination ==
    /\ <>(pc = "done")
    /\ [](/\ pc = "done" <=> outcome \in Terminal
          /\ pc # "done" => outcome = "none"
          /\ epoch <= training.n_epochs
          /\ training.current_epoch < training.n_epochs
          /\ outcome = "completed" =>
                /\ epoch = training.n_epochs
                /\ training.current_epoch = training.n_epochs - 1
                /\ \A m \in Metrics :
                     Len(perf[m]["training"]) =
                         Len(perf0[m]["training"]) + training.n_epochs)
    /\ [][ /\ pc # "done"
           /\ training'.current_epoch # training.current_epoch =>
                 /\ pc = "epoch"
                 /\ training'.current_epoch = training.current_epoch + 1
                 /\ training.current_epoch = NoEpoch => training'.current_epoch = 0
      ]_vars

\* C18 witness: a run of 3 epochs completed by exhaustion after epoch 2
C18_Witness ==
    /\ pc = "done"
    /\ outcome = "completed"
    /\ training.n_epochs = 3
    /\ epoch = 3
    /\ training.current_epoch = 2

----------------------------------------------------------------------------
(* What is persisted at termination *)

\* s is an initial part of t
IsPrefix(s, t) == Len(s) <= Len(t) /\ SubSeq(t, 1, Len(s)) = s

\* the last epoch before the current one that had a validation round
LastValidationEpoch ==
    ((epoch - 1) \div training.validation_schedule) * training.validation_schedule

\* C19: when the check stops the run in epoch e, progress.json and the
\* checkpoint of epoch e are already written, so the persisted log equals the
\* log in memory at termination; after a NaN abort or the exhaustion of the
\* loop the persisted log is the one written at the last validation epoch, an
\* initial part of the log in memory that lacks the training entries of the
\* epochs after it.
C19_PersistedLog ==
    /\ Raised =>
          /\ progress.written
          /\ progress.performance = perf
          /\ progress.training_spec = training
          /\ epoch \in checkpoints
    /\ progress.written =>
          \A m \in Metrics, s \in Splits : IsPrefix(progress.performance[m][s], perf[m][s])
    /\ (pc = "done" /\ outcome \in {"nan", "completed"}) =>
          IF progress.written
          THEN /\ progress.training_spec.current_epoch = LastValidationEpoch
               /\ \A m \in Metrics :
                    /\ Len(progress.performance[m]["training"]) =
                           Len(perf0[m]["training"]) + LastValidationEpoch + 1
                    /\ Len(perf[m]["training"]) = Len(perf0[m]["training"]) + epoch
          ELSE outcome = "nan" /\ epoch = 0

\* C19 witness: stopped by the check, the persisted log is the log in memory
\* and the checkpoint of the epoch exists
C19_Witness ==
    /\ Raised
    /\ pc = "done"
    /\ progress.written
    /\ progress.performance = perf
    /\ epoch \in checkpoints

\* a run ended by a NaN abort or by exhaustion whose persisted log lacks
\* training entries of the log in memory
PersistedLogLags ==
    /\ pc = "done"
    /\ outcome \in {"nan", "completed"}
    /\ progress.written
    /\ Len(progress.performance["loss"]["training"]) < Len(perf["loss"]["training"])

----------------------------------------------------------------------------
(* The skip after an aborted run *)

\* C20: the skip depends only on the existence of the model directory and on
\* overwrite: a call with overwrite = False that follows a call aborted on NaN
\* finds the directory that call created, executes no training step and
\* returns as a skip.
C20_SkipAfterAbort ==
    [][ (pc = "idle" /\ ncalls' = ncalls + 1) =>
            /\ outcome' = "skip" <=> (dirExists /\ ~overwrite)
            /\ (prev_outcome = "nan" /\ ~overwrite) =>
                  /\ dirExists
                  /\ pc' = "done"
                  /\ outcome' = "skip"
                  /\ steps' = 0
                  /\ "training_step" \notin invoked'
                  /\ UNCHANGED <<perf, progress, checkpoints, writes>>
      ]_vars

\* C20 witness: the second call, overwrite = False, after a call that was
\* aborted on NaN: a skip without a training step
C20_Witness ==
    /\ ncalls = 2
    /\ prev_outcome = "nan"
    /\ ~overwrite
    /\ pc = "done"
    /\ outcome = "skip"
    /\ steps = 0

====
